---- MODULE Spec2Model ----
(***************************************************************************)
(* Model of poolcore's block-template assembler (blockmaker/btcLike.h:     *)
(* transactionFilter and WorkTy) and of the MultiCall fan-in helper.       *)
(*                                                                         *)
(* Two state machines share the module, each with its own specification:   *)
(*   SpecMultiCall  - the callbacks generated by MultiCall, interleaved    *)
(*   SpecSelect, SpecReward, SpecLife, SpecCoinbase - one WorkTy object:   *)
(*                    construction, loadFromTemplate, mutate,              *)
(*                    prepareForSubmit                                     *)
(***************************************************************************)
EXTENDS Integers, Sequences, FiniteSets, TLC

VARIABLES
  \* ---- MultiCall<T> (src/unnamed/part_000) ----
  mcTotal,        \* TotalCallsNum
  mcData,         \* Data[0..TotalCallsNum-1]
  mcFinished,     \* FinishedCallsNum (atomic)
  mcAlive,        \* FALSE once `delete this` has run
  mcPc,           \* position of the callback of each subtask
  mcSeen,         \* value each callback got back from ++FinishedCallsNum
  mcRead,         \* value each callback read from TotalCallsNum
  mcThread,       \* thread each callback runs on
  mcSent,         \* value each subtask delivered
  mcMainCalls,    \* how many times MainCallback was invoked
  mcMainArgs,     \* the array MainCallback received
  mcMainThread,   \* the thread MainCallback ran on
  mcIncOrder,     \* subtasks in the order of their increments
  mcBadAccess     \* a callback touched the object after `delete this`

mcVars == <<mcTotal, mcData, mcFinished, mcAlive, mcPc, mcSeen, mcRead, mcThread,
            mcSent, mcMainCalls, mcMainArgs, mcMainThread, mcIncOrder,
            mcBadAccess>>

  \* ---- WorkTy (src/src/include/blockmaker/btcLike.h) ----
VARIABLES
  work,           \* the fields of the WorkTy object
  pc,             \* where the object is in its life: "Constructed", ...
  call            \* the last loadFromTemplate call: arguments, locals, result

workVars == <<work, pc, call>>

vars == <<mcVars, workVars>>

----------------------------------------------------------------------------
\* Bounds of the MultiCall model
MaxCalls == 3
NumThreads == 2
NumValues == 2

Threads == 1..NumThreads
Values == 1..NumValues
NoValue == 0
NoThread == 0
\* the callback has not read TotalCallsNum yet
NotRead == -1

Calls == 0..(mcTotal - 1)

\* what a read of the object's memory may yield once `delete this` has run
FreedWords == 0..MaxCalls

\* MultiCall(totalCallsNum, mainCallback): Data.reset(new T[totalCallsNum])
McInit ==
  /\ mcTotal \in 1..MaxCalls
  /\ mcData = [i \in 0..(mcTotal - 1) |-> NoValue]
  /\ mcFinished = 0
  /\ mcAlive = TRUE
  /\ mcPc = [i \in 0..(mcTotal - 1) |-> "ready"]
  /\ mcSeen = [i \in 0..(mcTotal - 1) |-> 0]
  /\ mcRead = [i \in 0..(mcTotal - 1) |-> NotRead]
  /\ mcThread = [i \in 0..(mcTotal - 1) |-> NoThread]
  /\ mcSent = [i \in 0..(mcTotal - 1) |-> NoValue]
  /\ mcMainCalls = 0
  /\ mcMainArgs = <<>>
  /\ mcMainThread = NoThread
  /\ mcIncOrder = <<>>
  /\ mcBadAccess = FALSE

\* ++FinishedCallsNum: the value the pre-increment yields
PreIncrement(n) == n + 1

\* ++FinishedCallsNum == TotalCallsNum
IsFinalCall(seen, total) == seen = total

\* Data[callNum] = data;
McStore(i, th, v) ==
  /\ mcPc[i] = "ready"
  /\ mcThread' = [mcThread EXCEPT ![i] = th]
  /\ mcSent' = [mcSent EXCEPT ![i] = v]
  /\ mcData' = [mcData EXCEPT ![i] = v]
  /\ mcBadAccess' = (mcBadAccess \/ ~mcAlive)
  /\ mcPc' = [mcPc EXCEPT ![i] = "stored"]
  /\ UNCHANGED <<workVars, mcTotal, mcFinished, mcAlive, mcSeen, mcRead, mcMainCalls,
                 mcMainArgs, mcMainThread, mcIncOrder>>

\* the left operand of ==: ++FinishedCallsNum (one atomic read-modify-write).
\* The two operands of == are not sequenced with respect to each other, so
\* the increment comes before or after the read of TotalCallsNum.
McIncrement(i) ==
  /\ mcPc[i] \in {"stored", "loaded"}
  /\ mcFinished' = mcFinished + 1
  /\ mcSeen' = [mcSeen EXCEPT ![i] = PreIncrement(mcFinished)]
  /\ mcIncOrder' = Append(mcIncOrder, i)
  /\ mcBadAccess' = (mcBadAccess \/ ~mcAlive)
  /\ mcPc' = [mcPc EXCEPT ![i] = IF mcPc[i] = "loaded" THEN "compared" ELSE "counted"]
  /\ UNCHANGED <<workVars, mcTotal, mcData, mcAlive, mcRead, mcThread, mcSent,
                 mcMainCalls, mcMainArgs, mcMainThread>>

\* the right operand of ==: the read of this->TotalCallsNum; a read after
\* `delete this` yields whatever the freed memory holds
McLoadTotal(i, word) ==
  /\ mcPc[i] \in {"stored", "counted"}
  /\ word = mcTotal \/ ~mcAlive
  /\ mcRead' = [mcRead EXCEPT ![i] = word]
  /\ mcBadAccess' = (mcBadAccess \/ ~mcAlive)
  /\ mcPc' = [mcPc EXCEPT ![i] = IF mcPc[i] = "stored" THEN "loaded" ELSE "compared"]
  /\ UNCHANGED <<workVars, mcTotal, mcData, mcFinished, mcAlive, mcSeen, mcThread,
                 mcSent, mcMainCalls, mcMainArgs, mcMainThread, mcIncOrder>>

\* if (... == TotalCallsNum) MainCallback(Data.get(), TotalCallsNum);
\* word: what a slot of Data holds when the object has been deleted
McMainCallback(i, word) ==
  /\ mcPc[i] = "compared"
  /\ IsFinalCall(mcSeen[i], mcRead[i])
  /\ word = NoValue \/ ~mcAlive
  /\ mcMainCalls' = mcMainCalls + 1
  /\ mcMainArgs' = IF mcAlive THEN [k \in 1..mcTotal |-> mcData[k - 1]]
                   ELSE [k \in 1..mcRead[i] |-> word]
  /\ mcMainThread' = mcThread[i]
  /\ mcBadAccess' = (mcBadAccess \/ ~mcAlive)
  /\ mcPc' = [mcPc EXCEPT ![i] = "called"]
  /\ UNCHANGED <<workVars, mcTotal, mcData, mcFinished, mcAlive, mcSeen, mcRead,
                 mcThread, mcSent, mcIncOrder>>

\* delete this;
McDelete(i) ==
  /\ mcPc[i] = "called"
  /\ mcAlive' = FALSE
  /\ mcBadAccess' = (mcBadAccess \/ ~mcAlive)
  /\ mcPc' = [mcPc EXCEPT ![i] = "done"]
  /\ UNCHANGED <<workVars, mcTotal, mcData, mcFinished, mcSeen, mcRead, mcThread,
                 mcSent, mcMainCalls, mcMainArgs, mcMainThread, mcIncOrder>>

\* the callback returns without having been the final one
McReturn(i) ==
  /\ mcPc[i] = "compared"
  /\ ~IsFinalCall(mcSeen[i], mcRead[i])
  /\ mcPc' = [mcPc EXCEPT ![i] = "done"]
  /\ UNCHANGED <<workVars, mcTotal, mcData, mcFinished, mcAlive, mcSeen, mcRead,
                 mcThread, mcSent, mcMainCalls, mcMainArgs, mcMainThread, mcIncOrder,
                 mcBadAccess>>

McNext ==
  \/ \E i \in Calls, th \in Threads, v \in Values : McStore(i, th, v)
  \/ \E i \in Calls : McIncrement(i)
  \/ \E i \in Calls, word \in FreedWords : McLoadTotal(i, word)
  \/ \E i \in Calls, word \in FreedWords : McMainCallback(i, word)
  \/ \E i \in Calls : McDelete(i)
  \/ \E i \in Calls : McReturn(i)

\* no WorkTy object takes part in the MultiCall runs
NoWork ==
  /\ work = <<>>
  /\ pc = "NoWork"
  /\ call = <<>>

InitMultiCall == McInit /\ NoWork
SpecMultiCall == InitMultiCall /\ [][McNext]_vars

----------------------------------------------------------------------------
\* C1: with each of the N generated callbacks delivered once, MainCallback
\* runs exactly once, after all N stores, on the thread of the callback whose
\* increment was the last one, with slot i holding subtask i's value; the
\* object is deleted only then and no callback touches it afterwards.
McAllDone == \A i \in Calls : mcPc[i] = "done"

C1_ExactlyOnceOrdered ==
  /\ mcMainCalls <= 1
  /\ mcMainCalls = 1 =>
       /\ \A i \in Calls : mcPc[i] \notin {"ready"}
       /\ mcMainArgs = [k \in 1..mcTotal |-> mcSent[k - 1]]
       /\ Len(mcIncOrder) = mcTotal
       /\ mcMainThread = mcThread[mcIncOrder[mcTotal]]
  /\ ~mcAlive => mcMainCalls >= 1
  /\ McAllDone => (mcMainCalls = 1 /\ ~mcAlive)
  /\ ~mcBadAccess

----------------------------------------------------------------------------
(***************************************************************************)
(* Values.  A 256-bit hash is a small natural here; its hex form (SetHex,  *)
(* GetHex) is a fixed-width sequence of hex digits, most significant       *)
(* first.  A template transaction is the JSON object together with what    *)
(* decoding its "data" yields:                                             *)
(*   txid, hash : hex digit strings        fee : the "fee" member          *)
(*   inputs     : previousOutputHash of each txin of the decoded data      *)
(*   form       : "ok", "nofield" (data, txid or fee missing or mistyped), *)
(*                "undecodable" (data does not decode, or leaves bytes)    *)
(***************************************************************************)
HexWidth == 2

\* uint256::SetHex
RECURSIVE SetHexFrom(_, _)
SetHexFrom(digits, acc) ==
  IF digits = <<>> THEN acc
  ELSE SetHexFrom(Tail(digits), 16 * acc + Head(digits))

SetHex(digits) == SetHexFrom(digits, 0)

\* uint256::GetHex
RECURSIVE GetHexWidth(_, _)
GetHexWidth(n, w) ==
  IF w = 0 THEN <<>> ELSE Append(GetHexWidth(n \div 16, w - 1), n % 16)

GetHex(n) == GetHexWidth(n, HexWidth)

\* std::string operator< on two hex strings
RECURSIVE StringLess(_, _)
StringLess(l, r) ==
  IF r = <<>> THEN FALSE
  ELSE IF l = <<>> THEN TRUE
  ELSE IF Head(l) # Head(r) THEN Head(l) < Head(r)
  ELSE StringLess(Tail(l), Tail(r))

\* std::numeric_limits<size_t>::max(): "depends on nothing"; indices are 1-based
NoIndex == 0

\* struct TxData
TxDataOf(tx, idx) ==
  [HexData |-> idx, TxId |-> SetHex(tx.txid), WitnessHash |-> SetHex(tx.hash)]

\* struct TxTree, as transactionFilter's first loop fills it
TxTreeOf(tx, idx) ==
  [Data |-> TxDataOf(tx, idx), Fee |-> tx.fee, DependsOn |-> NoIndex]

\* txidMap[key] = idx
MapPut(map, key, idx) ==
  [k \in (DOMAIN map) \cup {key} |-> IF k = key THEN idx ELSE map[k]]

\* *blockReward -= txTree[i].Fee;
DeductFeeMutant(blockReward, fee) == blockReward
DeductFee(blockReward, fee) == blockReward - fee

\* transactionFilter, first loop: field checks, TxTree, txidMap, and
\* *blockReward -= Fee for every transaction it reads
RECURSIVE FilterReadFields(_, _, _)
FilterReadFields(transactions, i, st) ==
  IF i > Len(transactions) THEN st
  ELSE IF transactions[i].form = "nofield" THEN [st EXCEPT !.ok = FALSE]
  ELSE FilterReadFields(transactions, i + 1,
         [ok |-> TRUE,
          tree |-> Append(st.tree, TxTreeOf(transactions[i], i)),
          txidMap |-> MapPut(st.txidMap, SetHex(transactions[i].txid), i),
          blockReward |-> DeductFee(st.blockReward, transactions[i].fee)])

\* for (txin : tx.txIn) { It = txidMap.find(previousOutputHash); if found DependsOn = It->second }
RECURSIVE FindDependency(_, _, _)
FindDependency(inputs, txidMap, dependsOn) ==
  IF inputs = <<>> THEN dependsOn
  ELSE FindDependency(Tail(inputs), txidMap,
         IF Head(inputs) \in DOMAIN txidMap THEN txidMap[Head(inputs)]
         ELSE dependsOn)

\* transactionFilter, second loop: decode every transaction, set DependsOn
RECURSIVE FilterDecode(_, _, _)
FilterDecode(transactions, i, st) ==
  IF i > Len(transactions) THEN st
  ELSE IF transactions[i].form = "undecodable" THEN [st EXCEPT !.ok = FALSE]
  ELSE FilterDecode(transactions, i + 1,
         [st EXCEPT !.tree[i].DependsOn =
            FindDependency(transactions[i].inputs, st.txidMap, NoIndex)])

\* addTransaction (declared at btcLike.h:59): add tree[index] after the
\* transaction it depends on.  sel = [visited, result, blockReward].
\* The recursion follows DependsOn without any guard against a cycle; a chain
\* of more than `depth` calls can only be a cycle, on which the recursion
\* never returns (overflow).
Added(sel) == [ok |-> TRUE, overflow |-> FALSE, sel |-> sel]
Refused(sel) == [ok |-> FALSE, overflow |-> FALSE, sel |-> sel]
Overflowed(sel) == [ok |-> FALSE, overflow |-> TRUE, sel |-> sel]

\* the part of addTransaction after the call for the dependency returned dep
AddAfterDependency(node, index, txNumLimit, dep) ==
  IF dep.overflow \/ ~dep.ok THEN dep
  ELSE IF Len(dep.sel.result) = txNumLimit THEN Refused(dep.sel)
  ELSE Added([visited |-> dep.sel.visited \cup {index},
              result |-> Append(dep.sel.result, node.Data),
              blockReward |-> dep.sel.blockReward + node.Fee])

RECURSIVE AddTransaction(_, _, _, _, _)
AddTransaction(tree, index, txNumLimit, sel, depth) ==
  IF index \in sel.visited THEN Added(sel)
  ELSE IF depth = 0 THEN Overflowed(sel)
  ELSE AddAfterDependency(tree[index], index, txNumLimit,
         IF tree[index].DependsOn # NoIndex
         THEN AddTransaction(tree, tree[index].DependsOn, txNumLimit, sel, depth - 1)
         ELSE Added(sel))

\* the txNumLimit argument transactionFilter hands to addTransaction
FilterLimitMutant(txNum, txNumLimit) == txNum
FilterLimit(txNum, txNumLimit) == txNumLimit

\* addedBy[k] is the index of the outer loop during which result[k] was appended
GrownBy(addedBy, result, i) ==
  [k \in 1..Len(result) |-> IF k <= Len(addedBy) THEN addedBy[k] ELSE i]

\* transactionFilter, third loop:
\*   for (i ...) if (!addTransaction(txTree.get(), i, txNumLimit, result, blockReward)) break;
\* lp = [sel, refusedAt, overflow, addedBy]
RECURSIVE FilterSelect(_, _, _, _)

\* one pass of the loop body, r being what addTransaction returned
FilterSelectStep(tree, i, txNumLimit, lp, r) ==
  IF r.overflow THEN [lp EXCEPT !.overflow = TRUE]
  ELSE IF ~r.ok
  THEN [lp EXCEPT !.sel = r.sel, !.refusedAt = i,
                  !.addedBy = GrownBy(lp.addedBy, r.sel.result, i)]
  ELSE FilterSelect(tree, i + 1, txNumLimit,
         [lp EXCEPT !.sel = r.sel,
                    !.addedBy = GrownBy(lp.addedBy, r.sel.result, i)])

FilterSelect(tree, i, txNumLimit, lp) ==
  IF i > Len(tree) THEN lp
  ELSE FilterSelectStep(tree, i, txNumLimit, lp,
         AddTransaction(tree, i, FilterLimit(Len(tree), txNumLimit), lp.sel, Len(tree)))

\* std::sort(result.begin(), result.end(), l.TxId.GetHex() < r.TxId.GetHex())
RECURSIVE InsertByHex(_, _)
InsertByHex(sorted, x) ==
  IF sorted = <<>> THEN <<x>>
  ELSE IF StringLess(GetHex(x.TxId), GetHex(Head(sorted).TxId))
  THEN <<x>> \o sorted
  ELSE <<Head(sorted)>> \o InsertByHex(Tail(sorted), x)

RECURSIVE SortByHexFrom(_, _)
SortByHexFrom(rest, sorted) ==
  IF rest = <<>> THEN sorted
  ELSE SortByHexFrom(Tail(rest), InsertByHex(sorted, Head(rest)))

SortByHashMutant(result) == result
SortByHash(result) == SortByHexFrom(result, <<>>)

\* transactionFilter<Proto>(transactions, txNumLimit, result, blockReward, sortByHash)
\* ret: the value returned; overflow: the call never returns
\* a return false out of the first or the second loop
FilterAborted(st) ==
  [ret |-> FALSE, overflow |-> FALSE, result |-> <<>>,
   blockReward |-> st.blockReward, tree |-> st.tree,
   unsorted |-> <<>>, refusedAt |-> NoIndex, addedBy |-> <<>>]

\* after the third loop: the optional sort and return true
FilterAfterSelect(tree, sortByHash, lp) ==
  [ret |-> ~lp.overflow,
   overflow |-> lp.overflow,
   result |-> IF sortByHash THEN SortByHash(lp.sel.result) ELSE lp.sel.result,
   blockReward |-> lp.sel.blockReward,
   tree |-> tree,
   unsorted |-> lp.sel.result,
   refusedAt |-> lp.refusedAt,
   addedBy |-> lp.addedBy]

FilterAfterDecode(txNumLimit, sortByHash, dec) ==
  IF ~dec.ok THEN FilterAborted(dec)
  ELSE FilterAfterSelect(dec.tree, sortByHash,
         FilterSelect(dec.tree, 1, txNumLimit,
           [sel |-> [visited |-> {}, result |-> <<>>, blockReward |-> dec.blockReward],
            refusedAt |-> NoIndex, overflow |-> FALSE, addedBy |-> <<>>]))

FilterAfterRead(transactions, txNumLimit, sortByHash, read) ==
  IF ~read.ok THEN FilterAborted(read)
  ELSE FilterAfterDecode(txNumLimit, sortByHash, FilterDecode(transactions, 1, read))

TransactionFilter(transactions, txNumLimit, blockReward, sortByHash) ==
  FilterAfterRead(transactions, txNumLimit, sortByHash,
    FilterReadFields(transactions, 1,
      [ok |-> TRUE, tree |-> <<>>, txidMap |-> <<>>, blockReward |-> blockReward]))

----------------------------------------------------------------------------
(***************************************************************************)
(* Bytes.  A buffer (xmstream, script) is a sequence of bytes 0..255.      *)
(***************************************************************************)
Zeros(n) == [k \in 1..n |-> 0]

Fill(n, b) == [k \in 1..n |-> b]

\* little-endian integer of n bytes (two's complement)
RECURSIVE LE(_, _)
LE(v, n) == IF n = 0 THEN <<>> ELSE <<v % 256>> \o LE(v \div 256, n - 1)

\* CompactSize
SerializeVarSize(n) ==
  IF n < 253 THEN <<n>>
  ELSE IF n <= 65535 THEN <<253>> \o LE(n, 2)
  ELSE <<254>> \o LE(n, 4)

SerializedVarSizeLength(n) == Len(SerializeVarSize(n))

\* the bytes of n, least significant first, without leading zero bytes
RECURSIVE MinimalLE(_)
MinimalLE(n) == IF n = 0 THEN <<>> ELSE <<n % 256>> \o MinimalLE(n \div 256)

\* BTC::serializeForCoinbase(scriptsig, Height_): BIP-34 <len><bytes>
SerializeForCoinbase(height) ==
  <<Len(MinimalLE(height))>> \o MinimalLE(height)

Subseq(s, from, n) == [k \in 1..n |-> s[from + k - 1]]

RECURSIVE Concat(_)
Concat(ss) == IF ss = <<>> THEN <<>> ELSE Head(ss) \o Concat(Tail(ss))

\* Script opcodes (enum Script)
OP_RETURN == 106
OP_DUP == 118
OP_EQUALVERIFY == 136
OP_HASH160 == 169
OP_CHECKSIG == 172

\* sizeof(typename Proto::AddressTy)
AddressSize == 20
\* bytes of a uint256 on the wire
HashSize == 32
\* std::numeric_limits<uint32_t>::max() as 4 bytes
MaxU32Bytes == <<255, 255, 255, 255>>

----------------------------------------------------------------------------
(***************************************************************************)
(* Transaction codec (BTC::Io<Proto::Transaction>), as section 3 and 4.C   *)
(* of the specification describe it.                                       *)
(***************************************************************************)
SerializeTxIn(txIn) ==
  Fill(HashSize, txIn.previousOutputHash) \o txIn.previousOutputIndex
    \o SerializeVarSize(Len(txIn.scriptSig)) \o txIn.scriptSig \o txIn.sequence

SerializeTxOut(txOut) ==
  LE(txOut.value, 8) \o SerializeVarSize(Len(txOut.pkScript)) \o txOut.pkScript

SerializeWitnessStack(txIn) ==
  SerializeVarSize(Len(txIn.witnessStack))
    \o Concat([k \in 1..Len(txIn.witnessStack) |->
                 SerializeVarSize(Len(txIn.witnessStack[k])) \o txIn.witnessStack[k]])

\* BTC::Io<Transaction>::serialize(dst, tx, serializeWitness)
SerializeTransaction(tx, serializeWitness) ==
  LE(tx.version, 4)
    \o (IF serializeWitness THEN <<0, 1>> ELSE <<>>)
    \o SerializeVarSize(Len(tx.txIn))
    \o Concat([k \in 1..Len(tx.txIn) |-> SerializeTxIn(tx.txIn[k])])
    \o SerializeVarSize(Len(tx.txOut))
    \o Concat([k \in 1..Len(tx.txOut) |-> SerializeTxOut(tx.txOut[k])])
    \o (IF serializeWitness
        THEN Concat([k \in 1..Len(tx.txIn) |-> SerializeWitnessStack(tx.txIn[k])])
        ELSE <<>>)
    \o LE(tx.lockTime, 4)

\* Transaction::getFirstScriptSigOffset(serializeWitness): where the content
\* of txIn[0].scriptSig starts in the serialization of the transaction it
\* is called on
GetFirstScriptSigOffset(tx, serializeWitness) ==
  4 + (IF serializeWitness THEN 2 ELSE 0)
    + SerializedVarSizeLength(Len(tx.txIn))
    + HashSize + 4
    + SerializedVarSizeLength(Len(tx.txIn[1].scriptSig))

----------------------------------------------------------------------------
(***************************************************************************)
(* WorkTy::buildCoinbaseTx(coinbaseData, coinbaseSize, miningCfg, legacy,  *)
(* witness).  w is the WorkTy object.                                      *)
(***************************************************************************)
\* the coinbase input before its scriptSig is attached (lines 277-288)
CoinbaseTxIn(w) ==
  [previousOutputHash |-> 0,
   previousOutputIndex |-> MaxU32Bytes,
   scriptSig |-> <<>>,
   sequence |-> MaxU32Bytes,
   witnessStack |-> IF w.SegwitEnabled THEN <<Zeros(HashSize)>> ELSE <<>>]

\* pkScript (use single P2PKH)
P2PKH(address) ==
  <<OP_DUP, OP_HASH160, AddressSize>> \o address \o <<OP_EQUALVERIFY, OP_CHECKSIG>>

CoinbaseTxOut(w) ==
  <<[value |-> w.BlockReward_, pkScript |-> P2PKH(w.MiningAddress_)]>>
    \o (IF w.DevFee # 0
        THEN <<[value |-> w.DevFee, pkScript |-> w.DevScriptPubKey]>>
        ELSE <<>>)
    \o (IF w.SegwitEnabled
        THEN <<[value |-> 0, pkScript |-> w.WitnessCommitment]>>
        ELSE <<>>)

\* the transaction the offsets are taken from: txIn resized to 1, its
\* scriptSig still empty (xvectorFromStream runs after the offsets are set)
OffsetBaseTx(w) ==
  [version |-> IF w.SegwitEnabled THEN 2 ELSE 1,
   txIn |-> <<CoinbaseTxIn(w)>>, txOut |-> <<>>, lockTime |-> 0]

\* the coinbase transaction as serialized at the end of buildCoinbaseTx
CoinbaseTransaction(w, scriptsig) ==
  [version |-> IF w.SegwitEnabled THEN 2 ELSE 1,
   txIn |-> <<[CoinbaseTxIn(w) EXCEPT !.scriptSig = scriptsig]>>,
   txOut |-> CoinbaseTxOut(w),
   lockTime |-> 0]

\* struct CoinbaseTx
CoinbaseTxOf(data, extraDataOffset, extraNonceOffset) ==
  [Data |-> data, ExtraDataOffset |-> extraDataOffset, ExtraNonceOffset |-> extraNonceOffset]

\* lines 301-304 and 342-343: the offsets and the two serializations
CoinbasePair(coinbaseTx, scriptsig, heightBytes, extraDataOffset, extraNonceOffset, legacyOffset, witnessOffset) ==
  [legacy |-> CoinbaseTxOf(SerializeTransaction(coinbaseTx, FALSE),
                           extraDataOffset + legacyOffset,
                           extraNonceOffset + legacyOffset),
   witness |-> CoinbaseTxOf(SerializeTransaction(coinbaseTx, TRUE),
                            extraDataOffset + witnessOffset,
                            extraNonceOffset + witnessOffset),
   scriptSig |-> scriptsig,
   heightBytes |-> heightBytes]

\* lines 291-305: the scriptsig stream, height first, then the extra data,
\* the message and the reserved extranonce bytes
CoinbaseWithHeight(w, heightBytes, coinbaseData, miningCfg) ==
  CoinbasePair(
    CoinbaseTransaction(w,
      heightBytes \o coinbaseData \o w.CoinbaseMessage_
        \o Zeros(miningCfg.FixedExtraNonceSize + miningCfg.MutableExtraNonceSize)),
    heightBytes \o coinbaseData \o w.CoinbaseMessage_
      \o Zeros(miningCfg.FixedExtraNonceSize + miningCfg.MutableExtraNonceSize),
    heightBytes,
    Len(heightBytes),
    Len(heightBytes) + Len(coinbaseData) + Len(w.CoinbaseMessage_),
    GetFirstScriptSigOffset(OffsetBaseTx(w), FALSE),
    GetFirstScriptSigOffset(OffsetBaseTx(w), TRUE))

BuildCoinbaseTx(w, coinbaseData, miningCfg) ==
  CoinbaseWithHeight(w, SerializeForCoinbase(w.Height_), coinbaseData, miningCfg)

----------------------------------------------------------------------------
(***************************************************************************)
(* Helpers of loadFromTemplate that btcLike.h only declares (lines 60-65). *)
(***************************************************************************)
\* transactionChecker(transactions, result): validates the fields and copies
\* the transactions in template order, no dependency analysis
RECURSIVE CheckerCopy(_, _, _)
CheckerCopy(transactions, i, result) ==
  IF i > Len(transactions) THEN [ret |-> TRUE, result |-> result]
  ELSE IF transactions[i].form = "nofield" THEN [ret |-> FALSE, result |-> result]
  ELSE CheckerCopy(transactions, i + 1,
                   Append(result, TxDataOf(transactions[i], i)))

TransactionChecker(transactions) == CheckerCopy(transactions, 1, <<>>)

\* isSegwitEnabled(transactions): some transaction reports a hash that is
\* not its txid
IsSegwitEnabled(transactions) ==
  \E i \in 1..Len(transactions) : transactions[i].hash # transactions[i].txid

\* processCoinbaseDevReward(blockTemplate, &DevFee, DevScriptPubKey)
ProcessCoinbaseDevReward(blockTemplate, w) ==
  IF blockTemplate.coinbasedevreward.present
  THEN [w EXCEPT !.DevFee = blockTemplate.coinbasedevreward.value,
                 !.DevScriptPubKey = blockTemplate.coinbasedevreward.scriptpubkey]
  ELSE w

\* script derived from minerfund.addresses[0]
MinerFundScript == <<OP_HASH160, AddressSize>> \o Fill(AddressSize, 77) \o <<135>>

\* processMinerFund(blockTemplate, &BlockReward_, &DevFee, DevScriptPubKey)
ProcessMinerFund(blockTemplate, w) ==
  IF blockTemplate.minerfund.present
  THEN [w EXCEPT !.DevFee = blockTemplate.minerfund.minimumvalue,
                 !.BlockReward_ = w.BlockReward_ - blockTemplate.minerfund.minimumvalue,
                 !.DevScriptPubKey = MinerFundScript]
  ELSE w

\* a stand-in for SHA-256d of a byte string: a position-weighted checksum
RECURSIVE WeightedSum(_, _, _)
WeightedSum(bytes, lo, hi) ==
  IF lo > hi THEN 0
  ELSE IF lo = hi THEN (lo * (bytes[lo] + 1)) % 251
  ELSE LET mid == (lo + hi) \div 2
       IN (WeightedSum(bytes, lo, mid) + WeightedSum(bytes, mid + 1, hi)) % 251

Digest(bytes) == WeightedSum(bytes, 1, Len(bytes))

\* calculateWitnessCommitment: default_witness_commitment verbatim when the
\* template has one, else OP_RETURN 0x24 0xaa21a9ed <commitment over the
\* wtxids of the selected transactions>; fails when it cannot be computed
CalculateWitnessCommitment(blockTemplate, txFilter, processedTransactions) ==
  CASE blockTemplate.witness = "default" ->
         [ret |-> TRUE, script |-> <<OP_RETURN, 36, 170, 33, 169, 237>> \o Fill(HashSize, 1)]
    [] blockTemplate.witness = "computed" ->
         [ret |-> TRUE,
          script |-> <<OP_RETURN, 36, 170, 33, 169, 237>>
                       \o Fill(HashSize,
                               Digest(<<0>> \o [k \in 1..Len(processedTransactions) |->
                                                  processedTransactions[k].WitnessHash]))]
    [] OTHER -> [ret |-> FALSE, script |-> <<>>]

\* one level up in the merkle tree: a node is the sequence of the leaves
\* under it (the last node is paired with itself at an odd level)
MerkleLevelUp(level) ==
  [k \in 1..((Len(level) + 1) \div 2) |->
     level[2 * k - 1] \o (IF 2 * k <= Len(level) THEN level[2 * k] ELSE level[2 * k - 1])]

RECURSIVE MerklePathFrom(_, _)
MerklePathFrom(level, path) ==
  IF Len(level) <= 1 THEN path
  ELSE MerklePathFrom(MerkleLevelUp(level), Append(path, level[2]))

\* collectTransactions(processedTransactions, TxHexData, MerklePath, TxNum_)
CollectTransactions(processedTransactions) ==
  [TxHexData |-> [k \in 1..Len(processedTransactions) |-> processedTransactions[k].HexData],
   MerklePath |-> MerklePathFrom(
                    <<<<0>>>> \o [k \in 1..Len(processedTransactions) |->
                                    <<processedTransactions[k].TxId>>],
                    <<>>),
   TxNum_ |-> Len(processedTransactions)]

\* NotifyTy::build(source, header, asicBoostData, legacy, merklePath, cfg,
\* resetPreviousWork, notifyMessage)
BuildNotifyMessageImpl(header, asicBoostData, legacy, merklePath, resetPreviousWork) ==
  [prevhash |-> header.hashPrevBlock,
   coinb1 |-> legacy.ExtraNonceOffset,
   merkle |-> merklePath,
   version |-> asicBoostData,
   nbits |-> header.nBits,
   ntime |-> header.nTime,
   clean |-> resetPreviousWork]

----------------------------------------------------------------------------
(***************************************************************************)
(* The WorkTy object.                                                      *)
(***************************************************************************)
NullBackend == 0
NullHash == 0

\* WorkTy::WorkTy(..., backend, ..., miningCfg, miningAddress, coinbaseMessage)
\* garbage: what MiningAddress_ holds when the constructor does not copy
InitializedOf(miningAddress) == Len(miningAddress) = AddressSize

WorkTy(backend, miningCfg, miningAddress, coinbaseMessage, garbage) ==
  [Backend_ |-> backend,
   MiningCfg_ |-> miningCfg,
   CoinbaseMessage_ |-> coinbaseMessage,
   Initialized_ |-> InitializedOf(miningAddress),
   MiningAddress_ |-> IF InitializedOf(miningAddress) THEN miningAddress
                      ELSE Fill(AddressSize, garbage),
   Height_ |-> 0,
   BlockReward_ |-> 0,
   SegwitEnabled |-> FALSE,
   DevFee |-> 0,
   DevScriptPubKey |-> <<>>,
   WitnessCommitment |-> <<>>,
   Header |-> [nVersion |-> 0, hashPrevBlock |-> NullHash, hashMerkleRoot |-> NullHash,
               nTime |-> 0, nBits |-> 0, nNonce |-> 0],
   JobVersion |-> 0,
   CBTxLegacy_ |-> [Data |-> <<>>, ExtraDataOffset |-> 0, ExtraNonceOffset |-> 0],
   CBTxWitness_ |-> [Data |-> <<>>, ExtraDataOffset |-> 0, ExtraNonceOffset |-> 0],
   MerklePath |-> <<>>,
   TxHexData |-> <<>>,
   TxNum_ |-> 0,
   NotifyMessage_ |-> <<>>]

\* WorkTy::ready()
Ready(w) == w.Backend_ # NullBackend

\* bool txFilter = MiningCfg_.TxNumLimit && transactions.Size() > MiningCfg_.TxNumLimit
TxFilterOf(w, transactions) ==
  w.MiningCfg_.TxNumLimit # 0 /\ Len(transactions) > w.MiningCfg_.TxNumLimit

\* bool needSortByHash = (ticker == "BCHN" || ticker == "BCHABC")
NeedSortByHash(ticker) == ticker = "BCHN" \/ ticker = "BCHABC"

\* the field checks at the top of loadFromTemplate
DocumentError(document) ==
  CASE document.form = "noresult" -> "no result"
    [] document.form = "missing" -> "missing data"
    [] document.form = "badformat" -> "height or header data invalid format"
    [] OTHER -> ""

\* strtoul(bits.GetString(), nullptr, 16)
Strtoul16(digits) == SetHexFrom(digits, 0)

\* "Fill header"
FillHeader(blockTemplate) ==
  [nVersion |-> blockTemplate.version,
   hashPrevBlock |-> SetHex(blockTemplate.previousblockhash),
   hashMerkleRoot |-> NullHash,
   nTime |-> blockTemplate.curtime,
   nBits |-> Strtoul16(blockTemplate.bits),
   nNonce |-> 0]

\* WorkTy::loadFromTemplate(document, ticker, error): the object and the
\* outcome of the call.  outcome: "true", "false" or "overflow" (the
\* recursion of addTransaction does not end and the call never returns).
\* sel is what the selector (filter or checker) produced.
LocalsOf(txFilter, sel, scriptSig, heightBytes) ==
  [txFilter |-> txFilter,
   selectorRet |-> sel.ret,
   processedTransactions |-> sel.result,
   tree |-> sel.tree,
   unsorted |-> sel.unsorted,
   refusedAt |-> sel.refusedAt,
   addedBy |-> sel.addedBy,
   scriptSig |-> scriptSig,
   heightBytes |-> heightBytes]

NoSelection ==
  [ret |-> TRUE, overflow |-> FALSE, result |-> <<>>, blockReward |-> 0,
   tree |-> <<>>, unsorted |-> <<>>, refusedAt |-> NoIndex, addedBy |-> <<>>]

\* transactionChecker's output in the shape of the filter's
CheckerSelection(checked, blockReward) ==
  [ret |-> checked.ret, overflow |-> FALSE, result |-> checked.result,
   blockReward |-> blockReward, tree |-> <<>>, unsorted |-> checked.result,
   refusedAt |-> NoIndex, addedBy |-> <<>>]

\* lines 220-227: "Checking/filtering transactions"; the value either
\* function returns is dropped
SelectTransactions(w, transactions, txFilter, ticker) ==
  IF txFilter
  THEN TransactionFilter(transactions, w.MiningCfg_.TxNumLimit, w.BlockReward_,
                         NeedSortByHash(ticker))
  ELSE CheckerSelection(TransactionChecker(transactions), w.BlockReward_)

\* lines 252-257: coinbase, transactions, return true
LoadStore(w, txFilter, sel, coinbase, collected) ==
  [w |-> [w EXCEPT !.CBTxLegacy_ = coinbase.legacy,
                   !.CBTxWitness_ = coinbase.witness,
                   !.TxHexData = collected.TxHexData,
                   !.MerklePath = collected.MerklePath,
                   !.TxNum_ = collected.TxNum_],
   outcome |-> "true",
   error |-> "",
   locals |-> LocalsOf(txFilter, sel, coinbase.scriptSig, coinbase.heightBytes)]

LoadBuild(w, txFilter, sel) ==
  LoadStore(w, txFilter, sel, BuildCoinbaseTx(w, <<>>, w.MiningCfg_),
            CollectTransactions(sel.result))

\* lines 243-250: "Fill header"
LoadHeader(w, blockTemplate, txFilter, sel) ==
  LoadBuild([w EXCEPT !.Header = FillHeader(blockTemplate),
                      !.JobVersion = FillHeader(blockTemplate).nVersion],
            txFilter, sel)

\* lines 237-241: "Calculate witness commitment"
LoadCommitment(w, blockTemplate, txFilter, sel, commitment) ==
  IF ~w.SegwitEnabled THEN LoadHeader(w, blockTemplate, txFilter, sel)
  ELSE IF ~commitment.ret
  THEN [w |-> w, outcome |-> "false", error |-> "witness commitment",
        locals |-> LocalsOf(txFilter, sel, <<>>, <<>>)]
  ELSE LoadHeader([w EXCEPT !.WitnessCommitment = commitment.script],
                  blockTemplate, txFilter, sel)

\* lines 229-232: the grafts, on the object with the selector's blockReward
LoadGrafts(w, blockTemplate, txFilter, sel) ==
  IF sel.overflow
  THEN [w |-> w, outcome |-> "overflow", error |-> "",
        locals |-> LocalsOf(txFilter, sel, <<>>, <<>>)]
  ELSE LoadCommitment(
         ProcessMinerFund(blockTemplate,
           ProcessCoinbaseDevReward(blockTemplate,
             [w EXCEPT !.BlockReward_ = sel.blockReward])),
         blockTemplate, txFilter, sel,
         CalculateWitnessCommitment(blockTemplate, txFilter, sel.result))

\* lines 214-227: Height_, BlockReward_, SegwitEnabled, then the selector
LoadSelect(w, blockTemplate, txFilter, ticker) ==
  LoadGrafts(w, blockTemplate, txFilter,
             SelectTransactions(w, blockTemplate.transactions, txFilter, ticker))

LoadFromTemplate(w, document, ticker) ==
  IF DocumentError(document) # ""
  THEN [w |-> w, outcome |-> "false", error |-> DocumentError(document),
        locals |-> LocalsOf(FALSE, NoSelection, <<>>, <<>>)]
  ELSE LoadSelect([w EXCEPT !.Height_ = document.height,
                            !.BlockReward_ = document.coinbasevalue,
                            !.SegwitEnabled = IsSegwitEnabled(document.transactions)],
                  document, TxFilterOf(w, document.transactions), ticker)

\* WorkTy::mutate(): Header.nTime = time(nullptr), then the notify message
MutateHeaderMutant(header, now) == [header EXCEPT !.nTime = now, !.nNonce = now]
MutateHeader(header, now) == [header EXCEPT !.nTime = now]

MutateWork(w, now) ==
  LET header == MutateHeader(w.Header, now)
  IN [w EXCEPT !.Header = header,
               !.NotifyMessage_ =
                  BuildNotifyMessageImpl(header, w.JobVersion, w.CBTxLegacy_,
                                         w.MerklePath, TRUE)]

\* overwrite data[offset, offset + Len(bytes)) (offsets count from 0)
WriteAt(data, offset, bytes) ==
  [k \in 1..Len(data) |->
     IF k > offset /\ k <= offset + Len(bytes) THEN bytes[k - offset] ELSE data[k]]

\* PrepareForSubmitTy::prepare(header, asicBoostData, legacy, witness,
\* merklePath, workerCfg, miningCfg, msg): extranonce into both coinbases at
\* the recorded offsets, the miner's nTime and nNonce into the header,
\* hashMerkleRoot from the coinbase and the merkle path
PrepareForSubmitImpl(w, msg) ==
  LET extraNonce == Fill(w.MiningCfg_.FixedExtraNonceSize
                           + w.MiningCfg_.MutableExtraNonceSize, msg.extraNonce)
      legacy == [w.CBTxLegacy_ EXCEPT
                   !.Data = WriteAt(w.CBTxLegacy_.Data, w.CBTxLegacy_.ExtraNonceOffset,
                                    extraNonce)]
      witness == [w.CBTxWitness_ EXCEPT
                    !.Data = WriteAt(w.CBTxWitness_.Data, w.CBTxWitness_.ExtraNonceOffset,
                                     extraNonce)]
  IN [w EXCEPT !.CBTxLegacy_ = legacy,
               !.CBTxWitness_ = witness,
               !.Header = [w.Header EXCEPT
                             !.nTime = msg.nTime,
                             !.nNonce = msg.nNonce,
                             !.hashMerkleRoot =
                                1 + Digest(legacy.Data \o Concat(w.MerklePath))]]

----------------------------------------------------------------------------
(***************************************************************************)
(* Actions on the WorkTy object.                                           *)
(***************************************************************************)
NoCall == [made |-> FALSE]

\* the state after the constructor
Constructed(backend, miningCfg, miningAddress, coinbaseMessage, garbage) ==
  /\ work = WorkTy(backend, miningCfg, miningAddress, coinbaseMessage, garbage)
  /\ pc = "Constructed"
  /\ call = [made |-> FALSE, miningAddressSize |-> Len(miningAddress)]

\* what a loadFromTemplate call leaves in pc
PcAfterLoad(outcome) ==
  CASE outcome = "true" -> "Loaded"
    [] outcome = "false" -> "LoadFailed"
    [] OTHER -> "Overflow"

LoadDone(document, ticker, r) ==
  /\ work' = r.w
  /\ pc' = PcAfterLoad(r.outcome)
  /\ call' = [made |-> TRUE,
              miningAddressSize |-> call.miningAddressSize,
              document |-> document,
              ticker |-> ticker,
              outcome |-> r.outcome,
              error |-> r.error,
              locals |-> r.locals]

\* loadFromTemplate(document, ticker, error); a Work is loaded from one template
Load(document, ticker) ==
  /\ pc = "Constructed"
  /\ LoadDone(document, ticker, LoadFromTemplate(work, document, ticker))
  /\ UNCHANGED mcVars

\* mutate()
Mutate(now) ==
  /\ pc \in {"Loaded", "Mutated"}
  /\ work' = MutateWork(work, now)
  /\ pc' = "Mutated"
  /\ UNCHANGED <<call, mcVars>>

\* prepareForSubmit(workerCfg, msg)
PrepareForSubmit(msg) ==
  /\ pc \in {"Loaded", "Mutated", "Submitted"}
  /\ work' = PrepareForSubmitImpl(work, msg)
  /\ pc' = "Submitted"
  /\ UNCHANGED <<call, mcVars>>

\* no MultiCall object takes part in the WorkTy runs
NoMultiCall ==
  /\ mcTotal = 0
  /\ mcData = <<>>
  /\ mcFinished = 0
  /\ mcAlive = FALSE
  /\ mcPc = <<>>
  /\ mcSeen = <<>>
  /\ mcRead = <<>>
  /\ mcThread = <<>>
  /\ mcSent = <<>>
  /\ mcMainCalls = 0
  /\ mcMainArgs = <<>>
  /\ mcMainThread = NoThread
  /\ mcIncOrder = <<>>
  /\ mcBadAccess = FALSE

----------------------------------------------------------------------------
(***************************************************************************)
(* Templates (the JSON document handed to loadFromTemplate).               *)
(***************************************************************************)
Tickers == {"BTC", "BCHN", "BCHABC"}

\* previousOutputHash of an input that spends an output outside the template
ExternalHash == 255
\* txids of the template's transactions are FirstTxId + 1, FirstTxId + 2, ...
FirstTxId == 16

NoGraft == [present |-> FALSE]

BaseDocument ==
  [form |-> "ok",
   height |-> 700000,
   version |-> 536870912,
   previousblockhash |-> <<1, 1>>,
   curtime |-> 1000,
   bits |-> <<1, 7, 0, 11, 2, 12, 7, 0>>,
   coinbasevalue |-> 5000,
   transactions |-> <<>>,
   witness |-> "default",
   coinbasedevreward |-> NoGraft,
   minerfund |-> NoGraft]

DefaultMiningCfg ==
  [TxNumLimit |-> 0, FixedExtraNonceSize |-> 4, MutableExtraNonceSize |-> 4]

DefaultAddress == Fill(AddressSize, 9)

RECURSIVE Pow2(_)
Pow2(n) == IF n = 0 THEN 1 ELSE 2 * Pow2(n - 1)

\* the txid of the transaction at position i of n: ascending or descending
\* along the template
TxIdAt(i, n, order) ==
  IF order = "asc" THEN FirstTxId + i ELSE FirstTxId + n + 1 - i

\* the inputs of the transaction at position c: one per edge <<c, p>>, in
\* the order of the parents' positions; a single outside input without any
RECURSIVE ParentIds(_, _, _, _, _)
ParentIds(c, p, n, edges, order) ==
  IF p > n THEN <<>>
  ELSE (IF <<c, p>> \in edges THEN <<TxIdAt(p, n, order)>> ELSE <<>>)
         \o ParentIds(c, p + 1, n, edges, order)

InputsOf(c, n, edges, order) ==
  IF ParentIds(c, 1, n, edges, order) = <<>> THEN <<ExternalHash>>
  ELSE ParentIds(c, 1, n, edges, order)

\* n well-formed transactions; the fee of the one at position i is 2^(i-1),
\* so a sum of fees names the set of transactions it is over
TransactionsOf(n, edges, order) ==
  [i \in 1..n |->
     [txid |-> GetHex(TxIdAt(i, n, order)),
      hash |-> GetHex(TxIdAt(i, n, order)),
      inputs |-> InputsOf(i, n, edges, order),
      fee |-> Pow2(i - 1),
      form |-> "ok"]]

\* sets of at most k elements of S
RECURSIVE SubsetsUpTo(_, _)
SubsetsUpTo(S, k) ==
  IF k = 0 THEN {{}}
  ELSE LET smaller == SubsetsUpTo(S, k - 1)
       IN smaller \cup {s \cup {x} : s \in smaller, x \in S}

\* ---- the selector's templates ----
SelMaxTx == 4
SelMaxEdges == 2

SelectDocuments ==
  UNION {
    {[BaseDocument EXCEPT !.transactions = TransactionsOf(n, edges, order)] :
       edges \in SubsetsUpTo((1..n) \X (1..n), SelMaxEdges),
       order \in {"asc", "desc"}} :
    n \in 0..SelMaxTx}

InitSelect ==
  /\ \E limit \in 0..SelMaxTx :
       Constructed(1, [DefaultMiningCfg EXCEPT !.TxNumLimit = limit],
                   DefaultAddress, <<80, 79, 79, 76>>, 0)
  /\ NoMultiCall

NextSelect == \E document \in SelectDocuments, ticker \in Tickers : Load(document, ticker)

SpecSelect == InitSelect /\ [][NextSelect]_vars


\* ---- templates with malformed transactions, segwit and grafts ----
RewMaxTx == 3
DevRewardValue == 30
MinerFundValue == 70

\* "independent": no in-template inputs; "childFirst": the transaction at
\* position i spends the one at position i + 1
ShapeEdges(n, shape) ==
  IF shape = "independent" THEN {} ELSE {<<i, i + 1>> : i \in 1..(n - 1)}

\* the transaction at position bad (if any) is malformed in the given way;
\* with segwit the first transaction reports a hash that is not its txid
RewardTransactions(n, shape, bad, kind, segwit) ==
  [i \in 1..n |->
     [TransactionsOf(n, ShapeEdges(n, shape), "desc")[i] EXCEPT
        !.form = IF i = bad THEN kind ELSE "ok",
        !.hash = IF segwit /\ i = 1 THEN GetHex(FirstTxId + 100) ELSE @]]

DevRewards ==
  {NoGraft,
   [present |-> TRUE, value |-> DevRewardValue,
    scriptpubkey |-> P2PKH(Fill(AddressSize, 5))]}

MinerFunds == {NoGraft, [present |-> TRUE, minimumvalue |-> MinerFundValue]}

RewardDocuments ==
  UNION {
    {[BaseDocument EXCEPT
        !.transactions = RewardTransactions(n, shape, bad, kind, witness # "none"),
        !.witness = witness,
        !.coinbasedevreward = dev,
        !.minerfund = fund] :
       shape \in {"independent", "childFirst"},
       bad \in 0..n,
       kind \in {"nofield", "undecodable"},
       witness \in IF n = 0 THEN {"none"}
                   ELSE {"none", "default", "computed", "uncomputable"},
       dev \in DevRewards,
       fund \in MinerFunds} :
    n \in 0..RewMaxTx}

InitReward ==
  /\ \E limit \in 0..RewMaxTx :
       Constructed(1, [DefaultMiningCfg EXCEPT !.TxNumLimit = limit],
                   DefaultAddress, <<80, 79, 79, 76>>, 0)
  /\ NoMultiCall

NextReward == \E document \in RewardDocuments, ticker \in Tickers : Load(document, ticker)

SpecReward == InitReward /\ [][NextReward]_vars

\* ---- the life of one Work: construction, load, mutate, submit ----
LifeMaxTx == 2
MaxTime == 2

\* what time(nullptr) may return
Times == {1000 + t : t \in 1..MaxTime}

\* the miner's share: extranonce fill byte, nTime, nNonce
Shares == {[extraNonce |-> 222, nTime |-> 1001, nNonce |-> 7]}

LifeDocuments ==
  {[BaseDocument EXCEPT
      !.form = form,
      !.transactions = TransactionsOf(n, {}, "asc"),
      !.version = version,
      !.previousblockhash = prev,
      !.bits = bits] :
     form \in {"ok", "noresult", "missing", "badformat"},
     n \in 0..LifeMaxTx,
     version \in {1, 536870912},
     prev \in {<<1, 1>>, <<0, 10, 15>>},
     bits \in {<<1, 7, 0, 11, 2, 12, 7, 0>>, <<1, 13, 0, 0, 15, 15, 15, 15>>}}

InitLife ==
  /\ \E backend \in {NullBackend, 1},
        size \in {AddressSize, AddressSize - 1, 0},
        garbage \in {0, 238} :
       Constructed(backend, DefaultMiningCfg, Fill(size, 9), <<80, 79, 79, 76>>, garbage)
  /\ NoMultiCall

NextLife ==
  \/ \E document \in LifeDocuments : Load(document, "BTC")
  \/ \E now \in Times : Mutate(now)
  \/ \E msg \in Shares : PrepareForSubmit(msg)

SpecLife == InitLife /\ [][NextLife]_vars

\* ---- coinbases: heights, message lengths, extranonce sizes ----
CoinbaseMessageLengths == {0, 1, 2, 3, 240, 241, 242, 243, 244, 245, 246, 247}
CoinbaseHeights == {1, 255, 256, 700000}

CoinbaseDocuments ==
  {[BaseDocument EXCEPT
      !.height = height,
      !.transactions = RewardTransactions(1, "independent", 0, "ok", segwit),
      !.coinbasedevreward = dev] :
     height \in CoinbaseHeights, segwit \in BOOLEAN, dev \in DevRewards}

InitCoinbase ==
  /\ \E len \in CoinbaseMessageLengths, mutable \in {0, 4} :
       Constructed(1, [DefaultMiningCfg EXCEPT !.MutableExtraNonceSize = mutable],
                   DefaultAddress, Fill(len, 80), 0)
  /\ NoMultiCall

NextCoinbase == \E document \in CoinbaseDocuments : Load(document, "BTC")

SpecCoinbase == InitCoinbase /\ [][NextCoinbase]_vars

----------------------------------------------------------------------------
(***************************************************************************)
(* What the claims speak about, read off the state.                        *)
(***************************************************************************)
\* the template's transactions and the locals of the last loadFromTemplate
DocTxs == call.document.transactions
Locals == call.locals

\* loadFromTemplate returned true
LoadSucceeded == call.made /\ call.outcome = "true"

\* transactionFilter ran to its end on the last load
FilterReturned == call.made /\ call.outcome # "overflow" /\ Locals.txFilter

\* following DependsOn from index i for at most `steps` hops ends at "none"
RECURSIVE ChainEnds(_, _, _)
ChainEnds(tree, i, steps) ==
  IF i = NoIndex THEN TRUE
  ELSE IF steps = 0 THEN FALSE
  ELSE ChainEnds(tree, tree[i].DependsOn, steps - 1)

Acyclic(tree) == \A i \in 1..Len(tree) : ChainEnds(tree, i, Len(tree))

\* the template positions of the selected transactions, in the order in
\* which the merkle path and the block body take them
SelectedPositions == work.TxHexData

\* ascending by the hex txid strings of the template
SortedByTxid(positions) ==
  \A k \in 1..(Len(positions) - 1) :
    StringLess(DocTxs[positions[k]].txid, DocTxs[positions[k + 1]].txid)

\* C2: on the filter path without hash-sort, every in-template parent of an
\* emitted transaction (any input whose previousOutputHash is the txid of
\* another template transaction) is emitted too, at a smaller position.
C2_ParentsEmittedFirst ==
  (LoadSucceeded /\ Locals.txFilter /\ ~NeedSortByHash(call.ticker)) =>
    \A k \in 1..Len(SelectedPositions) :
      \A j \in 1..Len(DocTxs) :
        (/\ j # SelectedPositions[k]
         /\ \E m \in 1..Len(DocTxs[SelectedPositions[k]].inputs) :
              DocTxs[SelectedPositions[k]].inputs[m] = SetHex(DocTxs[j].txid))
        => \E k2 \in 1..(k - 1) : SelectedPositions[k2] = j

\* C10: the dependsOn relation transactionFilter builds has no cycle and the
\* recursive addTransaction pass terminates, for every template it processes.
C10_NoCycleTerminates ==
  (call.made /\ Locals.txFilter) =>
    (Acyclic(Locals.tree) /\ call.outcome # "overflow")

ScenarioS3 ==
  /\ FilterReturned
  /\ work.MiningCfg_.TxNumLimit = 2
  /\ [i \in 1..Len(Locals.tree) |-> Locals.tree[i].DependsOn] = <<NoIndex, 1, NoIndex, 3>>

C7_CapAndBreak ==
  FilterReturned =>
    /\ Len(Locals.processedTransactions) <= work.MiningCfg_.TxNumLimit
    /\ LoadSucceeded => work.TxNum_ <= work.MiningCfg_.TxNumLimit
    /\ Locals.refusedAt # NoIndex =>
         \A k \in 1..Len(Locals.addedBy) : Locals.addedBy[k] <= Locals.refusedAt
    /\ ScenarioS3 =>
         [k \in 1..Len(Locals.unsorted) |-> Locals.unsorted[k].HexData] = <<1, 2>>

C7_Witness ==
  /\ ScenarioS3
  /\ LoadSucceeded
  /\ Locals.refusedAt = 3
  /\ SelectedPositions = <<1, 2>>
  /\ work.BlockReward_ = 5000 - 4 - 8


----------------------------------------------------------------------------
\* sum of the fees of the template transactions at the given positions
RECURSIVE FeeSum(_)
FeeSum(positions) ==
  IF positions = {} THEN 0
  ELSE LET i == CHOOSE x \in positions : TRUE
       IN DocTxs[i].fee + FeeSum(positions \ {i})

SelectedSet == {SelectedPositions[k] : k \in 1..Len(SelectedPositions)}
UnselectedSet == (1..Len(DocTxs)) \ SelectedSet

\* the positions transactionFilter's first loop read before it met a
\* transaction without data, txid or fee (all of them when there is none)
ReadByFilter ==
  {i \in 1..Len(DocTxs) : \A j \in 1..i : DocTxs[j].form # "nofield"}

MinerFundPart ==
  IF call.document.minerfund.present THEN call.document.minerfund.minimumvalue ELSE 0

DevRewardPart ==
  IF call.document.coinbasedevreward.present /\ ~call.document.minerfund.present
  THEN call.document.coinbasedevreward.value ELSE 0

C5_CheckerFailureFailsLoad ==
  (/\ call.made
   /\ DocumentError(call.document) = ""
   /\ ~Locals.txFilter
   /\ \E i \in 1..Len(DocTxs) : DocTxs[i].form = "nofield")
  => /\ call.outcome = "false"
     /\ call.error # ""
     /\ pc # "Loaded"
     /\ work.CBTxLegacy_.Data = <<>>
     /\ work.CBTxWitness_.Data = <<>>
     /\ work.MerklePath = <<>>


----------------------------------------------------------------------------
\* C4: a Work constructed with a mining address of the wrong size is marked
\* uninitialized and ready() returns false, in every state afterwards.
C4_WrongAddressNeverReady ==
  (pc # "NoWork" /\ call.miningAddressSize # AddressSize) =>
    (~work.Initialized_ /\ ~Ready(work))

\* the value a hex string denotes: digit times weight, summed over the places
RECURSIVE Pow16(_)
Pow16(n) == IF n = 0 THEN 1 ELSE 16 * Pow16(n - 1)

RECURSIVE HexValueFrom(_, _)
HexValueFrom(digits, k) ==
  IF k > Len(digits) THEN 0
  ELSE digits[k] * Pow16(Len(digits) - k) + HexValueFrom(digits, k + 1)

HexValue(digits) == HexValueFrom(digits, 1)

\* the header as a notification may show it: merkle root null, nonce 0,
\* version, previous block and bits those of the template
HeaderAsLoaded ==
  /\ work.Header.hashMerkleRoot = NullHash
  /\ work.Header.nNonce = 0
  /\ work.Header.nVersion = call.document.version
  /\ work.Header.hashPrevBlock = HexValue(call.document.previousblockhash)
  /\ work.Header.nBits = HexValue(call.document.bits)
  /\ work.JobVersion = call.document.version

\* C9: after a successful load and any number of mutate() calls (no
\* prepareForSubmit) the header has a null merkle root, nonce 0 and the
\* template's version, previous block hash and bits; a mutate() changes
\* nothing but Header.nTime and the notify message.
C9_MutateFrame ==
  [][/\ pc' \in {"Loaded", "Mutated"} => HeaderAsLoaded'
     /\ pc' = "Mutated" =>
          work' = [work EXCEPT !.Header.nTime = work'.Header.nTime,
                               !.NotifyMessage_ = work'.NotifyMessage_]]_vars

C9_Witness ==
  /\ pc = "Mutated"
  /\ work.Header.nTime = 1002
  /\ work.NotifyMessage_.ntime = 1002
  /\ call.document.curtime = 1000
  /\ work.TxNum_ = 2
  /\ work.Header.nBits = 486604799

\* where the content of the coinbase scriptSig starts in a serialization
\* that holds it: version, (marker, flag), input count, outpoint, and the
\* CompactSize of the scriptSig as serialized
ScriptSigStart(serializeWitness) ==
  4 + (IF serializeWitness THEN 2 ELSE 0) + 1 + HashSize + 4
    + Len(SerializeVarSize(Len(Locals.scriptSig)))

ExtraNonceSize ==
  work.MiningCfg_.FixedExtraNonceSize + work.MiningCfg_.MutableExtraNonceSize

OffsetsExact(coinbase, serializeWitness) ==
  /\ Subseq(coinbase.Data, ScriptSigStart(serializeWitness) + 1, Len(Locals.scriptSig))
       = Locals.scriptSig
  /\ coinbase.ExtraNonceOffset
       = ScriptSigStart(serializeWitness) + Len(Locals.scriptSig) - ExtraNonceSize
  /\ coinbase.ExtraDataOffset
       = ScriptSigStart(serializeWitness) + Len(Locals.heightBytes)
  /\ Subseq(coinbase.Data, coinbase.ExtraNonceOffset + 1, ExtraNonceSize)
       = Zeros(ExtraNonceSize)

\* C8: in both serializations the recorded ExtraNonceOffset is where the
\* last FixedExtraNonceSize + MutableExtraNonceSize bytes of the coinbase
\* scriptSig lie and ExtraDataOffset is right after the height bytes, for
\* every scriptSig length.
C8_OffsetsPointIntoScriptSig ==
  LoadSucceeded =>
    /\ OffsetsExact(work.CBTxLegacy_, FALSE)
    /\ OffsetsExact(work.CBTxWitness_, TRUE)


====
